---------------------------- MODULE Spec2Model ----------------------------
(***************************************************************************)
(* Model of the ComfyUI model finder: name normalisation, missing-asset   *)
(* detection, ledger (CSV) creation and the resumable link resolution     *)
(* run, in its two implementations:                                        *)
(*   "core" - src/model_finder/core.py                                     *)
(*   "v25"  - src/ModelFinderV2_5/analysis_model.py                        *)
(*                                                                         *)
(* Strings are sequences of character classes:                             *)
(*   "a"  an ordinary lower-case character      "A"  its upper case        *)
(*   " "  white space                           "_"  one of  - _ |         *)
(*   "C"  a CJK ideograph in U+4E00..U+9FA5                                *)
(*   "E"  a CJK ideograph in U+9FA6..U+9FFF                                *)
(* Ledger status texts are written in ASCII:                               *)
(*   ""             pending              (both: empty cell)                *)
(*   "Processed"    resolved             (v25: 已处理)                     *)
(*   "NotFound"     not found            (v25: 未找到, core: Not Found)    *)
(*   "NotFoundHF", "NotFoundLibLib"      (v25: 未找到HF, 未找到LibLib)     *)
(*   "SearchError"  error   (v25: 搜索错误, core: Processing Error)        *)
(***************************************************************************)
EXTENDS Integers, Sequences, FiniteSets, TLC

VARIABLES
    impl,               \* which implementation runs: "core" or "v25"
    \* ---- name normalisation
    mappings,           \* IrregularNamesModel.mappings
    rawName,            \* the filename handed to normalisation
    mapped,             \* result of get_corrected_name
    queryTerm,          \* result of remove_chinese_prefix
    requeried,          \* the normalisation applied to queryTerm again
    npc,                \* position: "raw", "mapped", "stripped", "again"
    \* ---- analysis of one workflow: extraction, missing list, ledger
    descriptor,         \* what the workflow file is: see DescriptorKinds
    outcome,            \* find_missing_models: "none", "returned", "raised"
    existing_ledger,    \* the rows at the output path before create_csv_file
    nodes,              \* workflow_json['nodes']
    file_references,    \* references found in the nodes
    missing_files,      \* find_missing_models' result
    csv_rows,           \* the rows create_csv_file wrote
    cpc,                \* position: "nodes", "refs", "missing", "csv"
    \* ---- the existence check of find_missing_models
    fs,                     \* the paths that exist on disk
    check_refs,             \* file_references handed to the check
    check_pos,              \* the reference the loop is at
    file_existence_cache,   \* v25: file_path -> bool, core: path -> bool
    missing_files_list,     \* the references classified missing
    epc,                    \* position: "check", "sort", "done"
    \* ---- the resolution run, search_model_links
    disk,               \* the rows of the ledger file; <<>> is a file without content
    df,                 \* the DataFrame of the run
    keywords,           \* the entries to search: [keyword, idx]
    pos,                \* the entry the loop is at
    pc,                 \* "idle", "browser", "search", "save", "writing", "finish"
    result,             \* how the last run ended: "none", "ok", "fail", "interrupted"
    \* ---- history of the resolution runs
    runs,               \* the number of runs started
    started,            \* the ledger file as the current run read it
    searched,           \* the rows searched in the current run, in order
    raised,             \* the rows whose processing raised in the current run
    last,               \* the last search: row, site, keyword, outcome
    committed,          \* the ledger written by the last completed write
    \* ---- the rule that turns one widget value into a reference
    platform,           \* whose os.path is in use: "posix" or "nt"
    widget_value,       \* widgets_values[index], a string
    reference,          \* the file names emitted for it: none or one
    vpc,                \* position: "value", "done"
    \* ---- batch_process_workflows
    directory,          \* the files of the directory, in the order of their names
    patterns,           \* file_pattern.split(';')
    all_files,          \* the candidate files: [path, kind, slow, missing]
    checked,            \* the candidates whose validation is over
    workflow_files,     \* the candidates validated as workflows
    wf_pos,             \* the workflow the processing loop is at
    results,            \* results (v25), individual_results (core)
    all_missing_files,  \* the dictionary of missing files, in insertion order
    summary_csv,        \* the rows of the summary ledger
    batch_summary,      \* the rows of the run report
    bpc,                \* "glob", "validate", "process", "summary", "report", "done"
    returned,           \* what the batch returned: "none", "ok", "no_files"
    \* ---- history of the batch
    processed,          \* the workflows whose analysis came back in time
    \* ---- the read of a ledger file at the start of search_model_links
    ledger_file,        \* the file: its header and its rows of cells
    read_df,            \* the DataFrame after the read and the column check
    rpc,                \* position: "off", "file", "read", "failed"
    \* ---- the licence check at the head of the two analyses (core)
    license_info,       \* LicenseManager.license_info: status, type, credits, usage
    today,              \* the date, as a day number
    gate,               \* the last licence check: what it saw and what it did
    calls,              \* the analyses called so far
    lpc                 \* position: "off", "ready"

normVars == <<mappings, rawName, mapped, queryTerm, requeried, npc>>

createVars == <<descriptor, outcome, existing_ledger,
               nodes, file_references, missing_files, csv_rows, cpc>>

existVars == <<fs, check_refs, check_pos, file_existence_cache,
               missing_files_list, epc>>

resolveVars == <<disk, df, keywords, pos, pc, result>>

historyVars == <<runs, started, searched, raised, last, committed>>

valueVars == <<platform, widget_value, reference, vpc>>

batchVars == <<directory, patterns, all_files, checked, workflow_files, wf_pos, results,
               all_missing_files, summary_csv, batch_summary, bpc, returned,
               processed>>

readVars == <<ledger_file, read_df, rpc>>

licenseVars == <<license_info, today, gate, calls, lpc>>

laterVars == <<valueVars, batchVars, readVars, licenseVars>>

vars == <<impl, normVars, createVars, existVars, resolveVars, historyVars, laterVars>>

Impls == {"core", "v25"}

\* the parts of the state a process does not use stay at rest
NormIdle ==
    /\ mappings = <<>>
    /\ rawName = <<>>
    /\ mapped = <<>>
    /\ queryTerm = <<>>
    /\ requeried = <<>>
    /\ npc = "off"

CreateIdle ==
    /\ descriptor = "workflow"
    /\ outcome = "none"
    /\ existing_ledger = <<>>
    /\ nodes = <<>>
    /\ file_references = <<>>
    /\ missing_files = <<>>
    /\ csv_rows = <<>>
    /\ cpc = "off"

ExistIdle ==
    /\ fs = {}
    /\ check_refs = <<>>
    /\ check_pos = 0
    /\ file_existence_cache = <<>>
    /\ missing_files_list = <<>>
    /\ epc = "off"

NoSearch == [idx |-> 0, site |-> "", keyword |-> <<>>, outcome |-> "none"]

ResolveIdle ==
    /\ disk = <<>>
    /\ df = <<>>
    /\ keywords = <<>>
    /\ pos = 0
    /\ pc = "off"
    /\ result = "none"
    /\ runs = 0
    /\ started = <<>>
    /\ searched = <<>>
    /\ raised = {}
    /\ last = NoSearch
    /\ committed = <<>>

ValueIdle ==
    /\ platform = "posix"
    /\ widget_value = <<>>
    /\ reference = <<>>
    /\ vpc = "off"

BatchIdle ==
    /\ directory = <<>>
    /\ patterns = <<>>
    /\ all_files = <<>>
    /\ checked = {}
    /\ workflow_files = <<>>
    /\ wf_pos = 0
    /\ results = <<>>
    /\ all_missing_files = <<>>
    /\ summary_csv = <<>>
    /\ batch_summary = <<>>
    /\ bpc = "off"
    /\ returned = "none"
    /\ processed = {}

ReadIdle ==
    /\ ledger_file = [columns |-> {}, rows |-> <<>>]
    /\ read_df = [ok |-> FALSE, columns |-> {}, rows |-> <<>>]
    /\ rpc = "off"

NoGate ==
    [feature |-> "none", cost |-> 0, over_limit |-> FALSE, before |-> 0,
     after |-> 0, proceeded |-> FALSE, reason |-> ""]

LicenseIdle ==
    /\ license_info = <<>>
    /\ today = 0
    /\ gate = NoGate
    /\ calls = 0
    /\ lpc = "off"

LaterIdle == ValueIdle /\ BatchIdle /\ ReadIdle /\ LicenseIdle

(***************************************************************************)
(* Bounds of the model.                                                    *)
(***************************************************************************)
MaxLen == 3
MaxMappings == 1
MaxNodes == 2
MaxWidgets == 2
MaxFiles == 2
MaxRefs == 2
MaxRows == 2
MaxRuns == 2
MaxBatchFiles == 2
MaxReadRows == 1
MaxCredits == 6
MaxCalls == 5
MaxDay == 2

(***************************************************************************)
(* Strings.                                                                *)
(***************************************************************************)
Chars == {"a", "A", " ", "_", "C", "E"}

StringsUpTo(n) == UNION {[1..k -> Chars] : k \in 0..n}

\* the white space str.strip() removes: blanks and line breaks
IsSpace(c) == c \in {" ", "LF"}

\* the character class [一-龥] of remove_chinese_prefix
IsPrefixChinese(c) == c = "C"

\* the character class [-_|\s] of remove_chinese_prefix
IsSeparator(c) == c = "_" \/ c = " "

RECURSIVE LStrip(_)
LStrip(s) == IF s # <<>> /\ IsSpace(Head(s)) THEN LStrip(Tail(s)) ELSE s

RECURSIVE RStrip(_)
RStrip(s) ==
    IF s # <<>> /\ IsSpace(s[Len(s)]) THEN RStrip(SubSeq(s, 1, Len(s) - 1)) ELSE s

\* str.strip()
Strip(s) == RStrip(LStrip(s))

RECURSIVE DropChinesePrefix(_)
DropChinesePrefix(s) ==
    IF s # <<>> /\ IsPrefixChinese(Head(s)) THEN DropChinesePrefix(Tail(s)) ELSE s

RECURSIVE DropSeparators(_)
DropSeparators(s) ==
    IF s # <<>> /\ IsSeparator(Head(s)) THEN DropSeparators(Tail(s)) ELSE s

remove_chinese_prefix(filename) ==
    IF filename # <<>> /\ IsPrefixChinese(Head(filename))
    THEN Strip(DropSeparators(Strip(DropChinesePrefix(filename))))
    ELSE filename

\* the character class [一-鿿]
contains_chinese(text) == \E k \in 1..Len(text) : text[k] \in {"C", "E"}

RECURSIVE CollapseSpaces(_)
CollapseSpaces(s) ==
    IF Len(s) < 2 THEN s
    ELSE IF IsSpace(s[1]) /\ IsSpace(s[2]) THEN CollapseSpaces(Tail(s))
    ELSE <<Head(s)>> \o CollapseSpaces(Tail(s))

normalize_string(text) == IF text = <<>> THEN <<>> ELSE CollapseSpaces(Strip(text))

Lower(s) ==
    [k \in 1..Len(s) |-> IF s[k] = "A" THEN "a"
                         ELSE IF s[k] = "None" THEN "none"
                         ELSE s[k]]

\* first index of ms whose original name is in the set hits, 0 when none is
FirstMatch(ms, hits) ==
    IF \E k \in 1..Len(ms) : ms[k].original_name \in hits
    THEN CHOOSE k \in 1..Len(ms) :
             /\ ms[k].original_name \in hits
             /\ \A j \in 1..(k - 1) : ms[j].original_name \notin hits
    ELSE 0

get_corrected_name(ms, name_to_check) ==
    LET originals == {ms[k].original_name : k \in 1..Len(ms)}
        e == FirstMatch(ms, {o \in originals : o = name_to_check})
        n == FirstMatch(ms, {o \in originals :
                 normalize_string(o) = normalize_string(name_to_check)})
        c == FirstMatch(ms, {o \in originals : Lower(o) = Lower(name_to_check)})
    IN  IF name_to_check = <<>> THEN name_to_check
        ELSE IF e # 0 THEN ms[e].corrected_name
        ELSE IF n # 0 THEN ms[n].corrected_name
        ELSE IF c # 0 THEN ms[c].corrected_name
        ELSE name_to_check

(***************************************************************************)
(* Name normalisation as a process: the alias lookup, the prefix strip,    *)
(* and the same two steps applied to the query term.                       *)
(***************************************************************************)
AliasNames == {<<"C", "a">>, <<"a">>, <<"A", " ">>, <<"C", "C">>}

Mapping == [original_name : AliasNames, corrected_name : AliasNames]

MappingLists == UNION {[1..k -> Mapping] : k \in 0..MaxMappings}

\* add_mapping refuses a second entry for an original name
UniqueOriginals(ms) ==
    \A j, k \in 1..Len(ms) : j # k => ms[j].original_name # ms[k].original_name

NormInit ==
    /\ impl = "v25"
    /\ mappings \in {ms \in MappingLists : UniqueOriginals(ms)}
    /\ rawName \in StringsUpTo(MaxLen)
    /\ mapped = <<>>
    /\ queryTerm = <<>>
    /\ requeried = <<>>
    /\ npc = "raw"
    /\ CreateIdle
    /\ ExistIdle
    /\ ResolveIdle
    /\ LaterIdle

Lookup ==
    /\ npc = "raw"
    /\ mapped' = get_corrected_name(mappings, rawName)
    /\ npc' = "mapped"
    /\ UNCHANGED <<impl, mappings, rawName, queryTerm, requeried>>
    /\ UNCHANGED <<createVars, existVars, resolveVars, historyVars, laterVars>>

StripPrefix ==
    /\ npc = "mapped"
    /\ queryTerm' = remove_chinese_prefix(mapped)
    /\ npc' = "stripped"
    /\ UNCHANGED <<impl, mappings, rawName, mapped, requeried>>
    /\ UNCHANGED <<createVars, existVars, resolveVars, historyVars, laterVars>>

Renormalize ==
    /\ npc = "stripped"
    /\ requeried' = remove_chinese_prefix(get_corrected_name(mappings, queryTerm))
    /\ npc' = "again"
    /\ UNCHANGED <<impl, mappings, rawName, mapped, queryTerm>>
    /\ UNCHANGED <<createVars, existVars, resolveVars, historyVars, laterVars>>

NormNext == Lookup \/ StripPrefix \/ Renormalize

SpecNorm == NormInit /\ [][NormNext]_vars

(***************************************************************************)
(* Links.  A URL is a record: its host, the kind of its path ("blob",      *)
(* "resolve", "search" or "" for any other path), a domain name its query  *)
(* mentions ("" for none) and the keyword its query carries.  NoLink is    *)
(* the empty cell.                                                         *)
(***************************************************************************)
NoLink == [host |-> "", path |-> "", mention |-> "", kw |-> <<>>]

\* 'domain' in link
LinkContains(link, domain) == link.host = domain \/ link.mention = domain

\* _get_search_url: the site the query is restricted to
SearchSite(keyword) ==
    IF contains_chinese(keyword) THEN "liblib.art" ELSE "huggingface.co"

\* https://www.bing.com/search?q=site:<site>+"<keyword>"
BingSearchLink(site, keyword) ==
    [host |-> "www.bing.com", path |-> "search", mention |-> site, kw |-> keyword]

(***************************************************************************)
(* Order of strings (Python compares by code point).                       *)
(***************************************************************************)
CharRank(c) ==
    CASE c = " " -> 1 [] c = "A" -> 2 [] c = "_" -> 3
      [] c = "a" -> 4 [] c = "C" -> 5 [] c = "E" -> 6
      \* the parts of the path names of the existence check
      [] c = ".bin" -> 11 [] c = ".ckpt" -> 12 [] c = ".onnx" -> 13
      [] c = ".pt" -> 14 [] c = ".pth" -> 15 [] c = ".safetensors" -> 16
      [] c = ".txt" -> 17 [] c = "m" -> 18

RECURSIVE StrLess(_, _)
StrLess(s, t) ==
    IF t = <<>> THEN FALSE
    ELSE IF s = <<>> THEN TRUE
    ELSE IF Head(s) # Head(t) THEN CharRank(Head(s)) < CharRank(Head(t))
    ELSE StrLess(Tail(s), Tail(t))

\* insert r after every element that is not greater: the sort is stable
RECURSIVE InsertByFilePath(_, _)
InsertByFilePath(r, sorted) ==
    IF sorted = <<>> THEN <<r>>
    ELSE IF StrLess(r.file_path, Head(sorted).file_path) THEN <<r>> \o sorted
    ELSE <<Head(sorted)>> \o InsertByFilePath(r, Tail(sorted))

\* sorted(list, key=lambda x: x['file_path'])
RECURSIVE SortedByFilePath(_)
SortedByFilePath(list) ==
    IF list = <<>> THEN <<>>
    ELSE InsertByFilePath(list[Len(list)],
                          SortedByFilePath(SubSeq(list, 1, Len(list) - 1)))

RECURSIVE SeqFilter(_, _)
SeqFilter(list, keep) ==
    IF list = <<>> THEN <<>>
    ELSE (IF Head(list) \in keep THEN <<Head(list)>> ELSE <<>>)
         \o SeqFilter(Tail(list), keep)

Range(f) == {f[k] : k \in DOMAIN f}

(***************************************************************************)
(* Extraction of the references of a workflow.  A node carries its id, its *)
(* type and its widget values, here file names.                            *)
(***************************************************************************)
NodeIds == <<12, 47>>

NodeTypes == {"CheckpointLoader", "SUPIR_Upscale", "KSampler"}

FileNames == {<<"a">>, <<"C", "a">>}

model_node_types(im) ==
    IF im = "v25" THEN {"CheckpointLoader", "SUPIR_Upscale"} ELSE {"CheckpointLoader"}

\* "Loader" in node_type
ContainsLoader(node_type) == node_type \in {"CheckpointLoader"}

\* the indices of widgets_values that are inspected (1-based here)
indices_to_check(im, node_type) ==
    IF im = "v25" /\ node_type = "SUPIR_Upscale" THEN <<1, 2>> ELSE <<1>>

NodeRefs(im, node) ==
    IF ~(node.type \in model_node_types(im) \/ ContainsLoader(node.type))
    THEN <<>>
    ELSE LET idx == indices_to_check(im, node.type)
             Ref(k) == [node_id |-> node.id, node_type |-> node.type,
                        file_path |-> node.widgets_values[idx[k]]]
             Used == {k \in 1..Len(idx) : idx[k] <= Len(node.widgets_values)}
         IN  SeqFilter([k \in 1..Len(idx) |->
                           IF k \in Used THEN Ref(k) ELSE <<>>],
                       {Ref(k) : k \in Used})

\* what an entry of the nodes list is: a JSON object with well-formed
\* fields, a value that is no object (node.get raises AttributeError), or an
\* object whose widgets_values is a mapping (widgets_values[0] raises)
NodeShapes == {"object", "not_object", "bad_widgets"}

\* the turn of the loop for this node raises: a mapping is reached only
\* behind the test for model nodes
NodeRaises(im, node) ==
    \/ node.shape = "not_object"
    \/ (/\ node.shape = "bad_widgets"
        /\ (node.type \in model_node_types(im) \/ ContainsLoader(node.type)))

\* v25: the handler of the per-node try formats node.get('id', 'N/A'),
\* which raises again for a node that is no object; the outer handler
\* re-raises and find_missing_models ends with the exception
ExtractionRaises(im, ns) ==
    im = "v25" /\ \E k \in 1..Len(ns) : ns[k].shape = "not_object"

\* the references the loop over the nodes collects: core has one try around
\* the whole loop, so a raising node ends the loop; v25 has a try per node
RECURSIVE ExtractReferences(_, _)
ExtractReferences(im, ns) ==
    IF ns = <<>> THEN <<>>
    ELSE IF NodeRaises(im, Head(ns))
         THEN IF im = "core" THEN <<>> ELSE ExtractReferences(im, Tail(ns))
         ELSE NodeRefs(im, Head(ns)) \o ExtractReferences(im, Tail(ns))

(***************************************************************************)
(* create_csv_file: the rows of the ledger.  The node-id and node-type     *)
(* cells are comma-joined texts, kept here as the sequences of their       *)
(* parts.                                                                  *)
(***************************************************************************)
RECURSIVE MergeFiles(_, _)
MergeFiles(list, merged) ==
    IF list = <<>> THEN merged
    ELSE LET missing == Head(list)
             at == {k \in 1..Len(merged) : merged[k].file_path = missing.file_path}
         IN  IF at # {}
             THEN LET k == CHOOSE j \in at : TRUE
                      existing == merged[k]
                  IN  MergeFiles(Tail(list),
                        [merged EXCEPT ![k] =
                           [existing EXCEPT
                              !.node_id = Append(existing.node_id, missing.node_id),
                              !.node_type =
                                  IF <<missing.node_type>> # existing.node_type
                                  THEN Append(existing.node_type, missing.node_type)
                                  ELSE existing.node_type]])
             ELSE MergeFiles(Tail(list),
                    Append(merged, [node_id |-> <<missing.node_id>>,
                                    node_type |-> <<missing.node_type>>,
                                    file_path |-> missing.file_path]))

\* the search link written at creation
InitialSearchLink(im, file_path) ==
    IF im = "v25" THEN BingSearchLink(SearchSite(file_path), file_path) ELSE NoLink

create_csv_file(im, missing) ==
    LET merged_list == SortedByFilePath(MergeFiles(missing, <<>>))
    IN  [k \in 1..Len(merged_list) |->
            [no |-> k,
             node_id |-> merged_list[k].node_id,
             node_type |-> merged_list[k].node_type,
             file_name |-> merged_list[k].file_path,
             status |-> "",
             download |-> NoLink,
             mirror |-> NoLink,
             search |-> InitialSearchLink(im, merged_list[k].file_path)]]

(***************************************************************************)
(* Analysis of one workflow as a process.                                  *)
(***************************************************************************)
WidgetLists == UNION {[1..k -> FileNames] : k \in 1..MaxWidgets}

NodeLists ==
    UNION {{ns \in [1..n -> [id : Range(NodeIds), type : NodeTypes,
                             widgets_values : WidgetLists,
                             shape : NodeShapes]] :
               \A k \in 1..n :
                   /\ ns[k].id = NodeIds[k]
                   /\ ns[k].shape = "not_object" =>
                          (ns[k].type = "KSampler" /\ Len(ns[k].widgets_values) = 1)}
           : n \in 1..MaxNodes}

\* what open and json.load make of the workflow file: a workflow, a JSON
\* object without the nodes key, a JSON value that is no object, a text that
\* is not JSON, a file that cannot be opened
DescriptorKinds == {"workflow", "no_nodes", "not_object", "invalid", "unreadable"}

\* how the loading part of find_missing_models ends: "nodes" goes on to the
\* loop over the nodes, "empty" returns the empty list, "raise" raises
LoadOutcomeV25(kind) ==
    CASE kind = "unreadable" -> "raise"
      [] kind = "invalid" -> "empty"
      [] kind \in {"not_object", "no_nodes"} -> "empty"
      [] OTHER -> "nodes"

LoadOutcomeCore(kind) ==
    CASE kind = "unreadable" -> "empty"
      [] kind = "invalid" -> "empty"
      [] kind = "not_object" -> "empty"
      [] OTHER -> "nodes"

LoadOutcome(im, kind) ==
    IF im = "v25" THEN LoadOutcomeV25(kind) ELSE LoadOutcomeCore(kind)

\* a ledger of an earlier run at the same output path: the file was
\* referenced by the first node and has been resolved since
ExistingLedgers ==
    {<<>>,
     <<[no |-> 1,
        node_id |-> <<NodeIds[1]>>,
        node_type |-> <<"CheckpointLoader">>,
        file_name |-> <<"a">>,
        status |-> "Processed",
        download |-> [host |-> "huggingface.co", path |-> "blob",
                      mention |-> "", kw |-> <<>>],
        mirror |-> [host |-> "hf-mirror.com", path |-> "resolve",
                    mention |-> "", kw |-> <<>>],
        search |-> NoLink]>>}

CreateInit ==
    /\ impl \in Impls
    /\ descriptor \in DescriptorKinds
    /\ outcome = "none"
    /\ existing_ledger \in ExistingLedgers
    /\ nodes \in NodeLists \cup {<<>>}
    /\ descriptor = "workflow" <=> nodes # <<>>
    /\ file_references = <<>>
    /\ missing_files = <<>>
    /\ csv_rows = <<>>
    /\ cpc = "file"
    /\ NormIdle
    /\ ExistIdle
    /\ ResolveIdle
    /\ LaterIdle

\* find_missing_models, opening and parsing the workflow file
LoadWorkflow ==
    /\ cpc = "file"
    /\ LET load == LoadOutcome(impl, descriptor)
       IN  /\ cpc' = IF load = "nodes" THEN "nodes" ELSE "end"
           /\ outcome' = CASE load = "raise" -> "raised"
                            [] load = "empty" -> "returned"
                            [] OTHER -> "none"
    /\ UNCHANGED <<impl, descriptor, existing_ledger, nodes, file_references,
                   missing_files, csv_rows>>
    /\ UNCHANGED <<normVars, existVars, resolveVars, historyVars, laterVars>>

\* find_missing_models, the loop over the nodes
Extract ==
    /\ cpc = "nodes"
    /\ IF ExtractionRaises(impl, nodes)
       THEN /\ file_references' = <<>>
            /\ outcome' = "raised"
            /\ cpc' = "end"
       ELSE /\ file_references' = ExtractReferences(impl, nodes)
            /\ outcome' = outcome
            /\ cpc' = "refs"
    /\ UNCHANGED <<impl, descriptor, existing_ledger, nodes,
                   missing_files, csv_rows>>
    /\ UNCHANGED <<normVars, existVars, resolveVars, historyVars, laterVars>>

\* find_missing_models, the existence check and the final sort: which file
\* names exist is decided by the file system, once per name (CheckExists)
FindMissing ==
    /\ cpc = "refs"
    /\ \E present \in SUBSET FileNames :
          missing_files' = SortedByFilePath(
              SeqFilter(file_references,
                        {r \in Range(file_references) : r.file_path \notin present}))
    /\ cpc' = "missing"
    /\ outcome' = "returned"
    /\ UNCHANGED <<impl, descriptor, existing_ledger, nodes, file_references,
                   csv_rows>>
    /\ UNCHANGED <<normVars, existVars, resolveVars, historyVars, laterVars>>

CreateCsv ==
    /\ cpc = "missing"
    /\ missing_files # <<>>
    /\ csv_rows' = create_csv_file(impl, missing_files)
    /\ cpc' = "csv"
    /\ UNCHANGED <<impl, descriptor, outcome, existing_ledger, nodes,
                   file_references, missing_files>>
    /\ UNCHANGED <<normVars, existVars, resolveVars, historyVars, laterVars>>

CreateNext == LoadWorkflow \/ Extract \/ FindMissing \/ CreateCsv

SpecCreate == CreateInit /\ [][CreateNext]_vars

(***************************************************************************)
(* The rule that turns one widget value into a reference.  A value is a    *)
(* sequence of: "a" and "n" (letters), " " (blank), "LF" (a line break),   *)
(* "\\" (one backslash), "/" (a slash), and "none" / "None", the text of   *)
(* one of the option words default, none, empty, auto, off, on in lower    *)
(* or in mixed case.                                                       *)
(***************************************************************************)
ValueChars == {"a", "n", " ", "LF", "\\", "/", "none", "None"}

WidgetValues == UNION {[1..k -> ValueChars] : k \in 0..MaxLen}

\* sub in s
ContainsText(s, sub) ==
    \E k \in 1..(Len(s) - Len(sub) + 1) : SubSeq(s, k, k + Len(sub) - 1) = sub

\* ["default", "none", "empty", "auto", "off", "on"]
common_non_model_options == {<<"none">>}

\* value.replace('\\', '/') of v25: every backslash becomes a slash
RECURSIVE ReplaceBackslash(_)
ReplaceBackslash(s) ==
    IF s = <<>> THEN <<>>
    ELSE <<IF Head(s) = "\\" THEN "/" ELSE Head(s)>> \o ReplaceBackslash(Tail(s))

\* value.replace('\\\\', '/') of core: every pair of backslashes becomes a
\* slash
RECURSIVE ReplaceBackslashPair(_)
ReplaceBackslashPair(s) ==
    IF Len(s) >= 2 /\ s[1] = "\\" /\ s[2] = "\\"
    THEN <<"/">> \o ReplaceBackslashPair(SubSeq(s, 3, Len(s)))
    ELSE IF s = <<>> THEN <<>>
    ELSE <<Head(s)>> \o ReplaceBackslashPair(Tail(s))

\* the separators of os.path: posixpath splits at '/', ntpath at '/' and '\'
PathSeparators(plat) == IF plat = "nt" THEN {"/", "\\"} ELSE {"/"}

\* what follows the last separator
RECURSIVE TrailingComponent(_, _)
TrailingComponent(seps, s) ==
    IF \E k \in 1..Len(s) : s[k] \in seps
    THEN TrailingComponent(seps, Tail(s))
    ELSE s

\* os.path.basename
basename(plat, s) == TrailingComponent(PathSeparators(plat), s)

\* v25: the file names emitted for the string at an inspected index
ValueReferenceV25(plat, raw) ==
    LET value == Strip(raw)
    IN  IF value = <<>> \/ ContainsText(value, <<"LF">>) THEN <<>>
        ELSE IF Lower(value) \in common_non_model_options THEN <<>>
        ELSE IF ContainsText(value, <<"\\">>) \/ ContainsText(value, <<"/">>)
             THEN <<basename(plat, ReplaceBackslash(value))>>
             ELSE <<value>>

\* core: the tests are written '\\n', '\\r' and '\\\\': a backslash followed
\* by the letter, and two backslashes
ValueReferenceCore(plat, raw) ==
    LET value == Strip(raw)
    IN  IF value = <<>> THEN <<>>
        ELSE IF ContainsText(value, <<"\\", "n">>) THEN <<>>
        ELSE IF Lower(value) \in common_non_model_options THEN <<>>
        ELSE IF ContainsText(value, <<"\\", "\\">>) \/ ContainsText(value, <<"/">>)
             THEN <<basename(plat, ReplaceBackslashPair(value))>>
             ELSE <<value>>

ValueReference(im, plat, raw) ==
    IF im = "v25" THEN ValueReferenceV25(plat, raw) ELSE ValueReferenceCore(plat, raw)

ValueInit ==
    /\ impl \in Impls
    /\ platform \in {"posix", "nt"}
    /\ widget_value \in WidgetValues
    /\ reference = <<>>
    /\ vpc = "value"
    /\ NormIdle
    /\ CreateIdle
    /\ ExistIdle
    /\ ResolveIdle
    /\ BatchIdle
    /\ ReadIdle
    /\ LicenseIdle

\* the body of "for index in indices_to_check" for a string
ExtractValue ==
    /\ vpc = "value"
    /\ reference' = ValueReference(impl, platform, widget_value)
    /\ vpc' = "done"
    /\ UNCHANGED <<impl, platform, widget_value>>
    /\ UNCHANGED <<normVars, createVars, existVars, resolveVars, historyVars,
                   batchVars, readVars, licenseVars>>

ValueNext == ExtractValue

SpecValue == ValueInit /\ [][ValueNext]_vars

(***************************************************************************)
(* The existence check of find_missing_models.  A file name is the         *)
(* sequence of its parts: a first part and dotted suffixes, <<"m", ".pt">> *)
(* for m.pt and <<".pt">> for a file named .pt .  A path is a file name in *)
(* a directory: "cwd" for the name as written, "base" for the name joined  *)
(* to the workflow's directory.                                            *)
(***************************************************************************)
model_extensions == <<".safetensors", ".pth", ".ckpt", ".pt", ".bin", ".onnx">>

\* os.path.splitext(file_path)[1]: the last dotted suffix, none for a name
\* that is only its first part (leading dots do not start an extension)
SplitExt(file_path) ==
    IF Len(file_path) > 1 THEN file_path[Len(file_path)] ELSE ""

\* f"{file_path}{model_ext}"
WithExt(file_path, model_ext) == file_path \o <<model_ext>>

Verbatim(file_path) == [dir |-> "cwd", name |-> file_path]

\* os.path.join(base_dir, file_path)
InBaseDir(file_path) == [dir |-> "base", name |-> file_path]

\* variant: the extension variants are probed as written only
VariantPathsVerbatimOnly(file_path, model_ext) ==
    <<Verbatim(WithExt(file_path, model_ext))>>

\* the two paths probed for one extension
VariantPaths(file_path, model_ext) ==
    <<Verbatim(WithExt(file_path, model_ext)), InBaseDir(WithExt(file_path, model_ext))>>

RECURSIVE AllVariantPaths(_, _)
AllVariantPaths(file_path, exts) ==
    IF exts = <<>> THEN <<>>
    ELSE VariantPaths(file_path, Head(exts)) \o AllVariantPaths(file_path, Tail(exts))

\* core: paths_to_check
paths_to_check(file_path) ==
    <<Verbatim(file_path), InBaseDir(file_path)>>
    \o (IF SplitExt(file_path) = "" THEN AllVariantPaths(file_path, model_extensions)
        ELSE <<>>)

\* os.path.exists
PathExists(files, p) == p \in files

\* a dict as a function: lookup and update
InCache(cache, key) == key \in DOMAIN cache

CachePut(cache, key, value) ==
    [k \in (DOMAIN cache) \cup {key} |-> IF k = key THEN value ELSE cache[k]]

\* v25: exists, computed for a file name that is not in the cache
ExistsV25(files, file_path) ==
    LET direct == PathExists(files, Verbatim(file_path))
                  \/ PathExists(files, InBaseDir(file_path))
        probes == AllVariantPaths(file_path, model_extensions)
    IN  \/ direct
        \/ /\ SplitExt(file_path) = ""
           /\ \E k \in 1..Len(probes) : PathExists(files, probes[k])

\* core: the loop over paths_to_check, with the cache of path results;
\* gives the verdict and the cache after the loop
RECURSIVE CheckPathsCore(_, _, _)
CheckPathsCore(files, paths, cache) ==
    IF paths = <<>> THEN [file_exists |-> FALSE, cache |-> cache]
    ELSE LET p == Head(paths)
         IN  IF InCache(cache, p)
             THEN IF cache[p] THEN [file_exists |-> TRUE, cache |-> cache]
                  ELSE CheckPathsCore(files, Tail(paths), cache)
             ELSE LET exists == PathExists(files, p)
                      cache2 == CachePut(cache, p, exists)
                  IN  IF exists THEN [file_exists |-> TRUE, cache |-> cache2]
                      ELSE CheckPathsCore(files, Tail(paths), cache2)

ExistStems == {"m", ".pt"}

OtherExtensions == {".txt"}

ExistNames ==
    {<<st>> : st \in ExistStems}
    \cup {<<st, e>> : st \in ExistStems, e \in Range(model_extensions) \cup OtherExtensions}

RefNames == {<<"m">>, <<"m", ".pt">>, <<"m", ".txt">>, <<".pt">>}

AllPaths == [dir : {"cwd", "base"}, name : ExistNames]

\* the subsets of S of at most n elements
RECURSIVE SubsetsUpTo(_, _)
SubsetsUpTo(S, n) ==
    IF n = 0 THEN {{}}
    ELSE LET smaller == SubsetsUpTo(S, n - 1)
         IN  smaller \cup {T \cup {x} : T \in smaller, x \in S}

ExistInit ==
    /\ impl \in Impls
    /\ fs \in SubsetsUpTo(AllPaths, MaxFiles)
    /\ \E n \in 1..MaxRefs : \E names \in [1..n -> RefNames] :
          check_refs = [k \in 1..n |-> [node_id |-> k, file_path |-> names[k]]]
    /\ check_pos = 1
    /\ file_existence_cache = <<>>
    /\ missing_files_list = <<>>
    /\ epc = "check"
    /\ NormIdle
    /\ CreateIdle
    /\ ResolveIdle
    /\ LaterIdle

\* one turn of the loop "for ref in file_references"
CheckExists ==
    /\ epc = "check"
    /\ check_pos <= Len(check_refs)
    /\ LET ref == check_refs[check_pos]
           file_path == ref.file_path
       IN  IF impl = "v25"
           THEN IF InCache(file_existence_cache, file_path)
                THEN /\ missing_files_list' =
                           IF ~file_existence_cache[file_path]
                           THEN Append(missing_files_list, ref)
                           ELSE missing_files_list
                     /\ UNCHANGED file_existence_cache
                ELSE LET exists == ExistsV25(fs, file_path)
                     IN  /\ file_existence_cache' =
                               CachePut(file_existence_cache, file_path, exists)
                         /\ missing_files_list' =
                               IF ~exists THEN Append(missing_files_list, ref)
                               ELSE missing_files_list
           ELSE LET r == CheckPathsCore(fs, paths_to_check(file_path),
                                        file_existence_cache)
                IN  /\ file_existence_cache' = r.cache
                    /\ missing_files_list' =
                          IF ~r.file_exists THEN Append(missing_files_list, ref)
                          ELSE missing_files_list
    /\ check_pos' = check_pos + 1
    /\ epc' = IF check_pos = Len(check_refs) THEN "sort" ELSE "check"
    /\ UNCHANGED <<impl, fs, check_refs>>
    /\ UNCHANGED <<normVars, createVars, resolveVars, historyVars, laterVars>>

\* the sort that ends find_missing_models
SortMissing ==
    /\ epc = "sort"
    /\ missing_files_list' = SortedByFilePath(missing_files_list)
    /\ epc' = "done"
    /\ UNCHANGED <<impl, fs, check_refs, check_pos, file_existence_cache>>
    /\ UNCHANGED <<normVars, createVars, resolveVars, historyVars, laterVars>>

ExistNext == CheckExists \/ SortMissing

SpecExist == ExistInit /\ [][ExistNext]_vars

(***************************************************************************)
(* The ledger file and the DataFrame.  The file holds texts; read_csv      *)
(* turns an empty cell into NaN and to_csv writes NaN as an empty cell.    *)
(* v25 reads the status and link columns as strings and fills their NaN    *)
(* with ''.                                                                *)
(***************************************************************************)
NaNName == <<"NaN">>

NaNLink == [host |-> "NaN", path |-> "", mention |-> "", kw |-> <<>>]

NaNStatus == "NaN"

string_columns(im) == IF im = "v25" THEN {"status", "download", "mirror", "search"} ELSE {}

ReadRow(im, row) ==
    [row EXCEPT
        !.file_name = IF @ = <<>> THEN NaNName ELSE @,
        !.status = IF @ = "" /\ "status" \notin string_columns(im) THEN NaNStatus ELSE @,
        !.download = IF @ = NoLink /\ "download" \notin string_columns(im) THEN NaNLink ELSE @,
        !.mirror = IF @ = NoLink /\ "mirror" \notin string_columns(im) THEN NaNLink ELSE @,
        !.search = IF @ = NoLink /\ "search" \notin string_columns(im) THEN NaNLink ELSE @]

\* pd.read_csv
ReadCsv(im, rows) == [k \in 1..Len(rows) |-> ReadRow(im, rows[k])]

WriteRow(row) ==
    [row EXCEPT
        !.file_name = IF @ = NaNName THEN <<>> ELSE @,
        !.status = IF @ = NaNStatus THEN "" ELSE @,
        !.download = IF @ = NaNLink THEN NoLink ELSE @,
        !.mirror = IF @ = NaNLink THEN NoLink ELSE @,
        !.search = IF @ = NaNLink THEN NoLink ELSE @]

\* df.to_csv
WriteCsv(frame) == [k \in 1..Len(frame) |-> WriteRow(frame[k])]

(***************************************************************************)
(* The choice of the rows to search.                                       *)
(***************************************************************************)
\* link.strip() != ''
HasText(link) == link # NoLink

\* liblib_link.strip().startswith('http'): every URL of the model is http(s)
StartsWithHttp(link) == link.host \notin {"", "NaN"}

HasFileName(row) == row.file_name # NaNName /\ row.file_name # <<>>

\* variant: rows already marked not found are skipped as well
IsSkippedV25Strict(row) ==
    \/ row.status = "Processed" /\ (HasText(row.download) \/ StartsWithHttp(row.search))
    \/ row.status \in {"NotFound", "NotFoundHF", "NotFoundLibLib"}

\* v25: is_processed and (has_hf_link or has_liblib_link)
IsSkippedV25(row) ==
    row.status = "Processed" /\ (HasText(row.download) \/ StartsWithHttp(row.search))

\* core: Status == 'Processed' and Download Link is not NaN and not blank
IsSkippedCore(row) ==
    row.status = "Processed" /\ row.download # NaNLink /\ HasText(row.download)


\* variant: no row is skipped
IsSkippedNever(im, row) == FALSE

IsSkipped(im, row) == IF im = "v25" THEN IsSkippedV25(row) ELSE IsSkippedCore(row)

\* the keyword searched for a row
KeywordOf(im, row) ==
    IF im = "v25" THEN remove_chinese_prefix(row.file_name) ELSE row.file_name

RECURSIVE SelectFrom(_, _, _)
SelectFrom(im, frame, k) ==
    IF k > Len(frame) THEN <<>>
    ELSE (IF HasFileName(frame[k]) /\ ~IsSkipped(im, frame[k])
          THEN <<[keyword |-> KeywordOf(im, frame[k]), idx |-> k]>>
          ELSE <<>>)
         \o SelectFrom(im, frame, k + 1)

\* keywords_to_search with indices_to_update
\* variant: the rows to search are listed twice
keywords_to_search_twice(im, frame) == SelectFrom(im, frame, 1) \o SelectFrom(im, frame, 1)

keywords_to_search(im, frame) == SelectFrom(im, frame, 1)

(***************************************************************************)
(* One search and what it writes into the DataFrame.                       *)
(***************************************************************************)
HFBlob == [host |-> "huggingface.co", path |-> "blob", mention |-> "", kw |-> <<>>]

HFPage == [host |-> "huggingface.co", path |-> "", mention |-> "", kw |-> <<>>]

LibLibPage == [host |-> "liblib.art", path |-> "", mention |-> "", kw |-> <<>>]

OtherPage == [host |-> "example.com", path |-> "", mention |-> "", kw |-> <<>>]

OtherAboutHF == [host |-> "example.com", path |-> "", mention |-> "huggingface.co", kw |-> <<>>]

OtherAboutLibLib == [host |-> "example.com", path |-> "", mention |-> "liblib.art", kw |-> <<>>]

ResultLinks == {HFBlob, HFPage, LibLibPage, OtherPage, OtherAboutHF, OtherAboutLibLib}

\* what a search can come to: the faults, no result, or the href of the
\* first result ("no_href": the first result has no href)
Faults == {"raise", "no_search_box", "no_results_container", "no_result_link", "no_href"}

\* original_link.replace("/blob/", "/resolve/")
BlobToResolve(link) == IF link.path = "blob" THEN [link EXCEPT !.path = "resolve"] ELSE link

get_mirror_link(original_url) ==
    IF ~LinkContains(original_url, "huggingface.co") THEN NoLink
    ELSE [host |-> "hf-mirror.com",
          path |-> IF original_url.path \in {"blob", "resolve"} THEN "resolve"
                   ELSE original_url.path,
          mention |-> "",
          kw |-> <<>>]

\* variant: the handler of a raised exception leaves the row as it is
OnRaiseNoMark(frame, idx) == frame

\* except Exception: the row is marked as a search error
OnRaise(frame, idx) == [frame EXCEPT ![idx].status = "SearchError"]

\* v25: the try block of one keyword; fault is in Faults or "" with link the href
\* variant: a page without the search box leaves the row as it was
OnNoSearchBoxSkip(frame, idx) == frame

\* the search box is not found: the row is marked and the loop goes on
OnNoSearchBox(frame, idx) == [frame EXCEPT ![idx].status = "SearchError"]

TryV25(frame, idx, keyword, fault, link) ==
    CASE fault = "raise" -> OnRaise(frame, idx)
      [] fault = "no_search_box" -> OnNoSearchBox(frame, idx)
      [] fault \in {"no_results_container", "no_result_link"} ->
            [frame EXCEPT ![idx].status = "NotFound"]
      [] OTHER ->
            IF contains_chinese(keyword)
            THEN IF fault = "" /\ LinkContains(link, "liblib.art")
                 THEN [frame EXCEPT ![idx].download = NoLink,
                                    ![idx].mirror = NoLink,
                                    ![idx].search = link,
                                    ![idx].status = "Processed"]
                 ELSE [frame EXCEPT ![idx].status = "NotFoundLibLib"]
            ELSE IF fault = "" /\ LinkContains(link, "huggingface.co")
                 THEN [frame EXCEPT ![idx].download = BlobToResolve(link),
                                    ![idx].mirror = get_mirror_link(link),
                                    ![idx].search = NoLink,
                                    ![idx].status = "Processed"]
                 ELSE [frame EXCEPT ![idx].status = "NotFoundHF"]

\* core: the try block of one keyword ('x' in None raises a TypeError)
TryCore(frame, idx, keyword, fault, link) ==
    CASE fault \in {"raise", "no_href"} -> OnRaise(frame, idx)
      [] fault = "no_search_box" -> OnNoSearchBox(frame, idx)
      [] fault \in {"no_results_container", "no_result_link"} ->
            IF contains_chinese(keyword)
            THEN [frame EXCEPT ![idx].status = "NotFound",
                               ![idx].search = BingSearchLink("liblib.art", keyword)]
            ELSE [frame EXCEPT ![idx].status = "NotFound"]
      [] OTHER ->
            IF contains_chinese(keyword)
            THEN IF LinkContains(link, "liblib.art")
                 THEN [frame EXCEPT ![idx].download = NoLink,
                                    ![idx].status = "Processed",
                                    ![idx].search = link]
                 ELSE [frame EXCEPT ![idx].status = "NotFound",
                                    ![idx].search = BingSearchLink("liblib.art", keyword)]
            ELSE IF LinkContains(link, "huggingface.co")
                 THEN [frame EXCEPT ![idx].download = BlobToResolve(link),
                                    ![idx].mirror = get_mirror_link(link),
                                    ![idx].status = "Processed"]
                 ELSE [frame EXCEPT ![idx].status = "NotFound"]

TryKeyword(im, frame, idx, keyword, fault, link) ==
    IF im = "v25" THEN TryV25(frame, idx, keyword, fault, link)
    ELSE TryCore(frame, idx, keyword, fault, link)

(***************************************************************************)
(* search_model_links as a process.                                        *)
(***************************************************************************)
ResolveNames == {<<>>, <<"a">>, <<"C", "a">>, <<"C">>, <<"a", "C">>}

\* the missing lists of MaxRows references at most, one per file name
RECURSIVE MissingLists(_)
MissingLists(n) ==
    IF n = 0 THEN {<<>>}
    ELSE LET shorter == MissingLists(n - 1)
         IN  shorter \cup
             {Append(ms, [node_id |-> NodeIds[1], node_type |-> "CheckpointLoader",
                          file_path |-> f]) :
                 ms \in shorter, f \in ResolveNames}

\* the alias maps a run may find: none, or the entry that gives the name of
\* a CJK-prefixed file without its prefix
ScenarioAlias == <<[original_name |-> <<"C", "a">>, corrected_name |-> <<"a">>]>>

AliasMaps == {<<>>, ScenarioAlias}

ResolveInit ==
    /\ impl \in Impls
    /\ \E ms \in MissingLists(MaxRows) :
          /\ ms # <<>>
          /\ ms = SortedByFilePath(ms)
          /\ disk = create_csv_file(impl, ms)
    /\ df = <<>>
    /\ keywords = <<>>
    /\ pos = 0
    /\ pc = "idle"
    /\ result = "none"
    /\ runs = 0
    /\ started = disk
    /\ searched = <<>>
    /\ raised = {}
    /\ last = NoSearch
    /\ committed = disk
    /\ mappings \in AliasMaps
    /\ rawName = <<>>
    /\ mapped = <<>>
    /\ queryTerm = <<>>
    /\ requeried = <<>>
    /\ npc = "off"
    /\ CreateIdle
    /\ ExistIdle
    /\ LaterIdle

\* the run reads the ledger and chooses the rows to search; a file without
\* content cannot be read and ends the run; core ends the run when no row
\* is chosen
StartRun ==
    /\ pc = "idle"
    /\ runs < MaxRuns
    /\ runs' = runs + 1
    /\ started' = disk
    /\ searched' = <<>>
    /\ raised' = {}
    /\ last' = NoSearch
    /\ IF disk = <<>>
       THEN /\ result' = "fail"
            /\ UNCHANGED <<df, keywords, pos, pc>>
       ELSE LET frame == ReadCsv(impl, disk)
                chosen == keywords_to_search(impl, frame)
            IN  IF impl = "core" /\ chosen = <<>>
                THEN /\ result' = "ok"
                     /\ UNCHANGED <<df, keywords, pos, pc>>
                ELSE /\ df' = frame
                     /\ keywords' = chosen
                     /\ pos' = 1
                     /\ pc' = "browser"
                     /\ result' = "none"
    /\ UNCHANGED <<impl, disk, committed>>
    /\ UNCHANGED <<normVars, createVars, existVars, laterVars>>

\* variant: the failure to start the browser marks the rows to search and
\* goes through the final save
AfterBrowserFailureSaved(ledger, frame, chosen) ==
    WriteCsv([k \in 1..Len(frame) |->
                 IF \E j \in 1..Len(chosen) : chosen[j].idx = k
                 THEN [frame[k] EXCEPT !.status = "SearchError"]
                 ELSE frame[k]])

\* the ledger file after find_chrome_path gave nothing or ChromiumPage
\* raised: return False (v25), the outer except (both); nothing is written
AfterBrowserFailure(ledger, frame, chosen) == ledger

\* find_chrome_path and ChromiumPage(chrome_options): the browser starts, or
\* the run ends with a failure
OpenBrowser ==
    /\ pc = "browser"
    /\ \E ok \in BOOLEAN :
          IF ok
          THEN /\ pc' = IF keywords = <<>> THEN "save" ELSE "search"
               /\ UNCHANGED <<disk, df, keywords, pos, result>>
          ELSE /\ pc' = "idle"
               /\ result' = "fail"
               /\ disk' = AfterBrowserFailure(disk, df, keywords)
               /\ df' = <<>>
               /\ keywords' = <<>>
               /\ pos' = 0
    /\ UNCHANGED impl
    /\ UNCHANGED historyVars
    /\ UNCHANGED <<normVars, createVars, existVars, laterVars>>

\* the search of one keyword and its try/except
SearchStep ==
    /\ pc = "search"
    /\ pos <= Len(keywords)
    /\ LET keyword == keywords[pos].keyword
           idx == keywords[pos].idx
       IN  \E fault \in Faults \cup {""} :
           \E link \in IF fault = "" THEN ResultLinks ELSE {NoLink} :
              /\ df' = TryKeyword(impl, df, idx, keyword, fault, link)
              /\ searched' = Append(searched, idx)
              /\ raised' = IF fault = "raise" \/ (impl = "core" /\ fault = "no_href")
                           THEN raised \cup {idx} ELSE raised
              /\ last' = [idx |-> idx, site |-> SearchSite(keyword),
                          keyword |-> keyword,
                          outcome |-> IF fault = "" THEN link.host ELSE fault]
    /\ pc' = "save"
    /\ UNCHANGED <<impl, disk, keywords, pos, result, runs, started, committed>>
    /\ UNCHANGED <<normVars, createVars, existVars, laterVars>>

\* df.to_csv opens the ledger file for writing: its content is gone
SaveBegin ==
    /\ pc = "save"
    /\ disk' = <<>>
    /\ pc' = "writing"
    /\ UNCHANGED <<impl, df, keywords, pos, result>>
    /\ UNCHANGED historyVars
    /\ UNCHANGED <<normVars, createVars, existVars, laterVars>>

\* df.to_csv has written the rows; the loop goes on, v25 writes the ledger
\* once more after the loop
SaveEnd ==
    /\ pc = "writing"
    /\ disk' = WriteCsv(df)
    /\ committed' = WriteCsv(df)
    /\ IF pos <= Len(keywords)
       THEN /\ pos' = pos + 1
            /\ pc' = IF pos < Len(keywords) THEN "search"
                     ELSE IF impl = "v25" THEN "save" ELSE "finish"
       ELSE /\ pos' = pos
            /\ pc' = "finish"
    /\ UNCHANGED <<impl, df, keywords, result, runs, started, searched, raised, last>>
    /\ UNCHANGED <<normVars, createVars, existVars, laterVars>>

\* the browser is closed, the HTML view is made and the run returns
Finish ==
    /\ pc = "finish"
    /\ pc' = "idle"
    /\ result' = "ok"
    /\ df' = <<>>
    /\ keywords' = <<>>
    /\ pos' = 0
    /\ UNCHANGED <<impl, disk>>
    /\ UNCHANGED historyVars
    /\ UNCHANGED <<normVars, createVars, existVars, laterVars>>

\* the run is abandoned: the process ends where it is
Interrupt ==
    /\ pc \in {"browser", "search", "save", "writing", "finish"}
    /\ pc' = "idle"
    /\ result' = "interrupted"
    /\ df' = <<>>
    /\ keywords' = <<>>
    /\ pos' = 0
    /\ UNCHANGED <<impl, disk>>
    /\ UNCHANGED historyVars
    /\ UNCHANGED <<normVars, createVars, existVars, laterVars>>

ResolveNext ==
    StartRun \/ OpenBrowser \/ SearchStep \/ SaveBegin \/ SaveEnd \/ Finish \/ Interrupt

SpecResolve == ResolveInit /\ [][ResolveNext]_vars

\* a run that has started goes on: the browser starts or fails, a search
\* comes back or raises, a write ends; the start of a run and its
\* interruption are up to the user
SpecResolveFair ==
    /\ SpecResolve
    /\ WF_vars(OpenBrowser)
    /\ WF_vars(SearchStep)
    /\ WF_vars(SaveBegin)
    /\ WF_vars(SaveEnd)
    /\ WF_vars(Finish)

(***************************************************************************)
(* batch_process_workflows.  A candidate file is what the validation and   *)
(* the analysis make of it: its kind ("workflow": a JSON object with       *)
(* nodes; "array": valid JSON that is no object; "invalid": not JSON;      *)
(* "unreadable": open fails), whether reading it takes longer than the     *)
(* validation allows, and the missing references its analysis returns.     *)
(* Candidates and workflows are named by their index; the path order of    *)
(* the files is the order of the indices.                                  *)
(***************************************************************************)
FileKinds == {"workflow", "array", "invalid", "unreadable"}

\* a reference of the k-th candidate: node ids belong to one workflow
BatchRef(k, f) ==
    [node_id |-> NodeIds[((k - 1) % Len(NodeIds)) + 1],
     node_type |-> "CheckpointLoader",
     file_path |-> f]

\* what find_missing_models may return for the k-th candidate
BatchMissingLists(k) ==
    {SortedByFilePath(refs) :
        refs \in {<<>>, <<BatchRef(k, <<"a">>)>>, <<BatchRef(k, <<"C", "a">>)>>,
                  <<BatchRef(k, <<"a">>), BatchRef(k, <<"C", "a">>)>>}}

CandidateLists(n) ==
    {fl \in [1..n -> [kind : FileKinds, slow : BOOLEAN,
                      missing : UNION {BatchMissingLists(k) : k \in 1..n}]] :
        \A k \in 1..n :
            /\ fl[k].missing \in BatchMissingLists(k)
            /\ fl[k].kind # "workflow" => fl[k].missing = <<>>}

\* json.load(f) succeeds
LoadsAsJson(kind) == kind \in {"workflow", "array"}

\* core: '{' in content and '}' in content
HasBraces(kind) == kind \in {"workflow", "invalid"}

\* v25: time.time() - start_check > json_check_timeout; core asks a future
\* that is already done for its result, which never times out
TimedOut(im, file) == im = "v25" /\ file.slow

\* variant: a candidate is taken when it can be opened
IsValidCandidateLax(im, file) == file.kind # "unreadable"

\* the candidate stays in workflow_files
IsValidCandidate(im, file) ==
    IF im = "v25" THEN LoadsAsJson(file.kind) /\ ~TimedOut(im, file)
    ELSE HasBraces(file.kind) /\ LoadsAsJson(file.kind)

\* sorted(workflow_files): the candidates in the order of their paths; two
\* candidates of one path are the same text, kept here in their own order
RECURSIVE InsertAscending(_, _, _)
InsertAscending(files, x, sorted) ==
    IF sorted = <<>> THEN <<x>>
    ELSE IF \/ files[x].path < files[Head(sorted)].path
            \/ (files[x].path = files[Head(sorted)].path /\ x < Head(sorted))
         THEN <<x>> \o sorted
         ELSE <<Head(sorted)>> \o InsertAscending(files, x, Tail(sorted))

\* variant: the validated list is used in the order of collection
CollectedOrder(files, list) == list

RECURSIVE SortedAscending(_, _)
SortedAscending(files, list) ==
    IF list = <<>> THEN <<>>
    ELSE InsertAscending(files, Head(list), SortedAscending(files, Tail(list)))

\* for item in missing: if item['file_path'] not in dict: dict[...] = item
RECURSIVE AddUnique(_, _)
AddUnique(dict, items) ==
    IF items = <<>> THEN dict
    ELSE IF \E k \in 1..Len(dict) : dict[k].file_path = Head(items).file_path
         THEN AddUnique(dict, Tail(items))
         ELSE AddUnique(Append(dict, Head(items)), Tail(items))

\* core: the rows of Summary_Missing_Files.csv
CoreSummaryRows(dict) ==
    LET items == SortedByFilePath(dict)
    IN  [k \in 1..Len(items) |->
            [no |-> k,
             node_id |-> <<items[k].node_id>>,
             node_type |-> <<items[k].node_type>>,
             file_name |-> items[k].file_path,
             status |-> "",
             download |-> NoLink,
             mirror |-> NoLink,
             search |-> IF contains_chinese(items[k].file_path)
                        THEN BingSearchLink("liblib.art", items[k].file_path)
                        ELSE NoLink]]

SummaryRows(im, dict) ==
    IF dict = <<>> THEN <<>>
    ELSE IF im = "v25" THEN create_csv_file(im, dict)
    ELSE CoreSummaryRows(dict)

\* the row of the run report for one result
ReportRows(res) ==
    [k \in 1..Len(res) |->
        [workflow |-> res[k].workflow, csv |-> res[k].csv,
         missing_count |-> res[k].missing_count]]

\* the directories: the files of CandidateLists, each with a name that
\* ends in .json or does not
Directories ==
    UNION {{[k \in 1..n |-> [kind |-> fl[k].kind, slow |-> fl[k].slow,
                             missing |-> fl[k].missing, json_name |-> names[k]]] :
               fl \in CandidateLists(n), names \in [1..n -> BOOLEAN]}
           : n \in 1..MaxBatchFiles}

\* the pattern of the batch: "*.json", or the "*.json;*" the controller
\* passes when the pattern field is empty
PatternLists == {<<"*.json">>, <<"*.json", "*">>}

\* glob.glob(os.path.join(directory, pattern)): the files the pattern
\* matches, each as a candidate that carries the file it is
GlobHits(dir, pattern) ==
    LET entry(k) == [path |-> k, kind |-> dir[k].kind, slow |-> dir[k].slow,
                     missing |-> dir[k].missing]
    IN  SeqFilter([k \in 1..Len(dir) |-> entry(k)],
                  {entry(k) : k \in {j \in 1..Len(dir) :
                                        pattern = "*" \/ dir[j].json_name}})

\* for pattern in patterns: all_files.extend(files)
RECURSIVE GlobAll(_, _)
GlobAll(dir, pats) ==
    IF pats = <<>> THEN <<>>
    ELSE GlobHits(dir, Head(pats)) \o GlobAll(dir, Tail(pats))

BatchInit ==
    /\ impl \in Impls
    /\ directory \in Directories
    /\ patterns \in PatternLists
    /\ all_files = <<>>
    /\ checked = {}
    /\ workflow_files = <<>>
    /\ wf_pos = 0
    /\ results = <<>>
    /\ all_missing_files = <<>>
    /\ summary_csv = <<>>
    /\ batch_summary = <<>>
    /\ bpc = "glob"
    /\ returned = "none"
    /\ processed = {}
    /\ NormIdle
    /\ CreateIdle
    /\ ExistIdle
    /\ ResolveIdle
    /\ ValueIdle
    /\ ReadIdle
    /\ LicenseIdle

\* the patterns are globbed into all_files; without a file the batch ends
GlobFiles ==
    /\ bpc = "glob"
    /\ all_files' = GlobAll(directory, patterns)
    /\ bpc' = IF all_files' = <<>> THEN "done" ELSE "validate"
    /\ returned' = IF all_files' = <<>> THEN "no_files" ELSE "none"
    /\ UNCHANGED <<impl, directory, patterns, checked, workflow_files, wf_pos,
                   results, all_missing_files, summary_csv, batch_summary,
                   processed>>
    /\ UNCHANGED <<normVars, createVars, existVars, resolveVars, historyVars,
                   valueVars, readVars, licenseVars>>

\* the validation of one candidate: v25 goes through all_files in order,
\* core takes the checks as they complete; after the last one the list is
\* sorted, and the batch ends when it is empty
ValidateFile ==
    /\ bpc = "validate"
    /\ \E k \in (1..Len(all_files)) \ checked :
          /\ impl = "v25" => \A j \in 1..(k - 1) : j \in checked
          /\ LET taken == IF IsValidCandidate(impl, all_files[k])
                          THEN Append(workflow_files, k) ELSE workflow_files
                 over == checked \cup {k} = 1..Len(all_files)
             IN  /\ checked' = checked \cup {k}
                 /\ workflow_files' = IF over THEN SortedAscending(all_files, taken) ELSE taken
                 /\ bpc' = IF ~over THEN "validate"
                           ELSE IF taken = <<>> THEN "done" ELSE "process"
                 /\ wf_pos' = IF over /\ taken # <<>> THEN 1 ELSE 0
                 /\ returned' = IF over /\ taken = <<>> THEN "no_files" ELSE "none"
    /\ UNCHANGED <<impl, directory, patterns, all_files, results, all_missing_files, summary_csv,
                   batch_summary, processed>>
    /\ UNCHANGED <<normVars, createVars, existVars, resolveVars, historyVars,
                   valueVars, readVars, licenseVars>>

\* one turn of the processing loop: the analysis comes back, takes longer
\* than the loop allows, or raises; the ledger of the workflow is written
\* or create_csv_file gives None
ProcessWorkflow ==
    /\ bpc = "process"
    /\ wf_pos <= Len(workflow_files)
    /\ LET k == workflow_files[wf_pos]
           missing == all_files[k].missing
       IN  \E way \in {"ok", "timeout", "raise"} : \E csv_ok \in BOOLEAN :
              IF way # "ok"
              THEN UNCHANGED <<results, all_missing_files, processed>>
              ELSE /\ processed' = processed \cup {k}
                   /\ IF impl = "v25"
                      THEN IF missing # <<>> /\ csv_ok
                           THEN /\ results' = Append(results,
                                       [workflow |-> k, csv |-> k,
                                        missing_count |-> Len(missing)])
                                /\ all_missing_files' =
                                       AddUnique(all_missing_files, missing)
                           ELSE UNCHANGED <<results, all_missing_files>>
                      ELSE /\ all_missing_files' =
                                  AddUnique(all_missing_files, missing)
                           /\ results' = Append(results,
                                  IF missing # <<>> /\ csv_ok
                                  THEN [workflow |-> k, csv |-> k,
                                        missing_count |-> Len(missing)]
                                  ELSE [workflow |-> k, csv |-> 0,
                                        missing_count |-> 0])
    /\ wf_pos' = wf_pos + 1
    /\ bpc' = IF wf_pos = Len(workflow_files) THEN "summary" ELSE "process"
    /\ UNCHANGED <<impl, directory, patterns, all_files, checked, workflow_files, summary_csv,
                   batch_summary, returned>>
    /\ UNCHANGED <<normVars, createVars, existVars, resolveVars, historyVars,
                   valueVars, readVars, licenseVars>>

\* the summary ledger of the batch
WriteSummary ==
    /\ bpc = "summary"
    /\ summary_csv' = SummaryRows(impl, all_missing_files)
    /\ bpc' = "report"
    /\ UNCHANGED <<impl, directory, patterns, all_files, checked, workflow_files, wf_pos, results,
                   all_missing_files, batch_summary, returned, processed>>
    /\ UNCHANGED <<normVars, createVars, existVars, resolveVars, historyVars,
                   valueVars, readVars, licenseVars>>

\* the run report of the batch
WriteReport ==
    /\ bpc = "report"
    /\ batch_summary' = ReportRows(results)
    /\ bpc' = "done"
    /\ returned' = "ok"
    /\ UNCHANGED <<impl, directory, patterns, all_files, checked, workflow_files, wf_pos, results,
                   all_missing_files, summary_csv, processed>>
    /\ UNCHANGED <<normVars, createVars, existVars, resolveVars, historyVars,
                   valueVars, readVars, licenseVars>>

BatchNext == GlobFiles \/ ValidateFile \/ ProcessWorkflow \/ WriteSummary \/ WriteReport

SpecBatch == BatchInit /\ [][BatchNext]_vars

(***************************************************************************)
(* The read of a ledger at the start of search_model_links.  A ledger file *)
(* is its header (the set of the columns it has) and its rows; a cell is   *)
(* "" (nothing between the commas), "x" (some text), and after the read    *)
(* possibly "NaN".  The columns carry the names of the fields of a row.    *)
(***************************************************************************)
LedgerColumns ==
    {"no", "node_id", "node_type", "file_name", "status", "download", "mirror", "search"}

Cells == {"", "x"}

\* the ledger files of n rows: a file has a header of one column at least
LedgerFilesWith(n) ==
    UNION {[columns : {cols}, rows : [1..n -> [cols -> Cells]]] :
              cols \in (SUBSET LedgerColumns) \ {{}}}

LedgerFiles == UNION {LedgerFilesWith(n) : n \in 0..MaxReadRows}

\* pd.read_csv of one cell: core reads with the defaults, v25 with
\* dtype=str for the string columns, keep_default_na=False, na_values=['']
\* and then fillna('') on the string columns that are there
ReadCell(im, col, cell) ==
    IF cell = "" /\ col \notin string_columns(im) THEN "NaN" ELSE cell

\* variant: the check adds no column
AddedColumnsNone(im, cols) == {}

\* the columns the check after the read adds to the frame
AddedColumns(im, cols) ==
    IF im = "v25"
    THEN {"file_name", "status", "download", "mirror", "search"} \ cols
    ELSE {"download", "mirror", "status", "search"} \ cols

\* core: 'File Name' not in df.columns gives return False
ReadFails(im, cols) == im = "core" /\ "file_name" \notin cols

read_ledger(im, file) ==
    IF ReadFails(im, file.columns)
    THEN [ok |-> FALSE, columns |-> {}, rows |-> <<>>]
    ELSE LET added == AddedColumns(im, file.columns)
         IN  [ok |-> TRUE,
              columns |-> file.columns \cup added,
              rows |-> [k \in 1..Len(file.rows) |->
                          [col \in file.columns \cup added |->
                              IF col \in file.columns
                              THEN ReadCell(im, col, file.rows[k][col])
                              ELSE ""]]]

ReadInit ==
    /\ impl \in Impls
    /\ ledger_file \in LedgerFiles
    /\ read_df = [ok |-> FALSE, columns |-> {}, rows |-> <<>>]
    /\ rpc = "file"
    /\ NormIdle
    /\ CreateIdle
    /\ ExistIdle
    /\ ResolveIdle
    /\ ValueIdle
    /\ BatchIdle
    /\ LicenseIdle

ReadLedger ==
    /\ rpc = "file"
    /\ read_df' = read_ledger(impl, ledger_file)
    /\ rpc' = IF read_df'.ok THEN "read" ELSE "failed"
    /\ UNCHANGED <<impl, ledger_file>>
    /\ UNCHANGED <<normVars, createVars, existVars, resolveVars, historyVars,
                   valueVars, batchVars, licenseVars>>

ReadNext == ReadLedger

SpecRead == ReadInit /\ [][ReadNext]_vars

(***************************************************************************)
(* The licence check at the head of find_missing_models and                *)
(* batch_process_workflows (core only; the 2.5 package has none).          *)
(* license_info keeps the fields the check reads: status, type, credits,   *)
(* the usage of each feature (today's count and its date) and the date of  *)
(* the last sign-in; the total count is written and never read.            *)
(***************************************************************************)
Features == {"single_analysis", "batch_analysis"}

LicenseStatuses == {"valid", "expired", "invalid", "trial", "free"}

Memberships == {"free", "basic", "pro"}

\* float('inf')
Unlimited == 1000

SingleCost == 2

BatchCost == 5

\* limits[membership][feature_type]
DailyLimit(membership, feature_type) ==
    IF membership = "free" THEN (IF feature_type = "single_analysis" THEN 3 ELSE 1)
    ELSE IF membership = "basic" THEN (IF feature_type = "single_analysis" THEN 10 ELSE 3)
    ELSE Unlimited

\* LicenseManager.can_use_feature: <<availability, reason>>
can_use_feature(info, feature_type, credits_cost) ==
    IF info.status = "invalid" THEN <<FALSE, "License invalid">>
    ELSE IF info.status = "expired" THEN <<FALSE, "License expired">>
    ELSE LET usage == info.usage[feature_type]
             daily_limit == DailyLimit(info.type, feature_type)
         IN  IF usage.today >= daily_limit /\ daily_limit # Unlimited
             THEN IF credits_cost > 0
                  THEN IF info.credits >= credits_cost
                       THEN <<TRUE, "Use Credits">>
                       ELSE <<FALSE, "Insufficient credits">>
                  ELSE <<FALSE, "Daily usage limit reached">>
             ELSE <<TRUE, "Available">>

\* LicenseManager.use_credits: whether credits were used, and the licence after
use_credits(info, amount) ==
    IF info.credits < amount
    THEN [ok |-> FALSE, info |-> info]
    ELSE [ok |-> TRUE, info |-> [info EXCEPT !.credits = @ - amount]]

\* LicenseManager.record_usage
record_usage(info, feature_type, day) ==
    LET usage == info.usage[feature_type]
        count == IF usage.last_date # day THEN 0 ELSE usage.today
    IN  [info EXCEPT !.usage[feature_type] = [today |-> count + 1, last_date |-> day]]

\* the licence check of an analysis and the recording of its use: the
\* licence after it, whether the analysis goes on, and the reason
LicenseCheck(info, feature_type, cost, day) ==
    LET r == can_use_feature(info, feature_type, cost)
    IN  IF ~r[1]
        THEN IF r[2] = "Use Credits"
             THEN LET u == use_credits(info, cost)
                  IN  IF ~u.ok
                      THEN [info |-> u.info, proceeded |-> FALSE,
                            reason |-> "Insufficient credits"]
                      ELSE [info |-> record_usage(u.info, feature_type, day),
                            proceeded |-> TRUE, reason |-> r[2]]
             ELSE [info |-> info, proceeded |-> FALSE, reason |-> r[2]]
        ELSE [info |-> record_usage(info, feature_type, day),
              proceeded |-> TRUE, reason |-> r[2]]

\* whether today's count of the feature has reached the limit of the membership
LimitReached(info, feature_type, day) ==
    LET usage == info.usage[feature_type]
        daily_limit == DailyLimit(info.type, feature_type)
    IN  /\ daily_limit # Unlimited
        /\ usage.last_date = day
        /\ usage.today >= daily_limit

\* LicenseManager._load_license: a licence file of any status and type, with
\* the daily counts brought to the date of the load
LicenseInit ==
    /\ impl = "core"
    /\ today = 1
    /\ license_info \in
          [status : LicenseStatuses, type : Memberships, credits : 0..MaxCredits,
           usage : {[f \in Features |-> [today |-> 0, last_date |-> 1]]},
           last_signin : {0}]
    /\ gate = NoGate
    /\ calls = 0
    /\ lpc = "ready"
    /\ NormIdle
    /\ CreateIdle
    /\ ExistIdle
    /\ ResolveIdle
    /\ ValueIdle
    /\ BatchIdle
    /\ ReadIdle

Licensed(feature_type, cost) ==
    /\ lpc = "ready"
    /\ calls < MaxCalls
    /\ LET c == LicenseCheck(license_info, feature_type, cost, today)
       IN  /\ license_info' = c.info
           /\ gate' = [feature |-> feature_type, cost |-> cost,
                       over_limit |-> LimitReached(license_info, feature_type, today),
                       before |-> license_info.credits,
                       after |-> c.info.credits,
                       proceeded |-> c.proceeded, reason |-> c.reason]
    /\ calls' = calls + 1
    /\ UNCHANGED <<impl, today, lpc>>
    /\ UNCHANGED <<normVars, createVars, existVars, resolveVars, historyVars,
                   valueVars, batchVars, readVars>>

\* find_missing_models, up to record_usage
LicensedFindMissingModels == Licensed("single_analysis", SingleCost)

\* batch_process_workflows, up to record_usage
LicensedBatchProcessWorkflows == Licensed("batch_analysis", BatchCost)

\* LicenseManager.check_daily_signin
check_daily_signin ==
    /\ lpc = "ready"
    /\ license_info.last_signin # today
    /\ license_info' =
          [license_info EXCEPT
              !.last_signin = today,
              !.credits = @ + (IF license_info.type = "free" THEN 1
                               ELSE IF license_info.type = "basic" THEN 3
                               ELSE 5)]
    /\ UNCHANGED <<impl, today, gate, calls, lpc>>
    /\ UNCHANGED <<normVars, createVars, existVars, resolveVars, historyVars,
                   valueVars, batchVars, readVars>>

\* datetime.now() passes midnight while the program runs
NewDay ==
    /\ lpc = "ready"
    /\ today < MaxDay
    /\ today' = today + 1
    /\ UNCHANGED <<impl, license_info, gate, calls, lpc>>
    /\ UNCHANGED <<normVars, createVars, existVars, resolveVars, historyVars,
                   valueVars, batchVars, readVars>>

LicenseNext ==
    \/ LicensedFindMissingModels
    \/ LicensedBatchProcessWorkflows
    \/ check_daily_signin
    \/ NewDay

SpecLicense == LicenseInit /\ [][LicenseNext]_vars

(***************************************************************************)
(* Properties.                                                             *)
(***************************************************************************)
NoDuplicates(seq) == \A j, k \in 1..Len(seq) : j # k => seq[j] # seq[k]

MissingNames == {missing_files[k].file_path : k \in 1..Len(missing_files)}

NodeIdsOf(f) ==
    {missing_files[k].node_id :
        k \in {j \in 1..Len(missing_files) : missing_files[j].file_path = f}}

\* C1: after create_csv_file the ledger holds exactly one row per distinct
\* file name of the missing list, and the node-id cell of that row is the
\* union of the node ids of the references to the file: every contributing
\* node id, each once.
C1_OneRowPerFileWithUnionOfNodeIds ==
    cpc = "csv" =>
        /\ {csv_rows[k].file_name : k \in 1..Len(csv_rows)} = MissingNames
        /\ \A j, k \in 1..Len(csv_rows) :
              csv_rows[j].file_name = csv_rows[k].file_name => j = k
        /\ \A k \in 1..Len(csv_rows) :
              /\ Range(csv_rows[k].node_id) = NodeIdsOf(csv_rows[k].file_name)
              /\ NoDuplicates(csv_rows[k].node_id)

Resolved(row) == row.status = "Processed"

NotFoundStatuses == {"NotFound", "NotFoundHF", "NotFoundLibLib"}

SearchedRows == Range(searched)

\* the name the strategy is to be chosen by: the file name after the alias
\* lookup, before the prefix is stripped
DecisionName(row) == get_corrected_name(mappings, row.file_name)

\* C2: a row that a run finds resolved with a link (the download link, or
\* the content link kept in the search-link cell for a hit on the domestic
\* domain) is not searched in that run, and the ledger the run writes holds
\* the row as it was.
C2_ResumeIdempotence ==
    \A k \in 1..Len(started) :
        (Resolved(started[k]) /\ (HasText(started[k].download) \/ HasText(started[k].search)))
            => /\ k \notin SearchedRows
               /\ disk # <<>> => disk[k] = started[k]

RowsToSearch == {keywords[j].idx : j \in 1..Len(keywords)}

\* C4: when the processing of a row raises, the row's status becomes the
\* error status, the ledger written at the end of the step holds it, the
\* loop goes on with the rows that follow, and the run does not end as a
\* failure: when it ends normally every chosen row has been searched.
C4_FailureIsolation ==
    /\ \A k \in raised : df # <<>> => df[k].status = "SearchError"
    /\ (pc \in {"search", "finish"} \/ (pc = "idle" /\ result = "ok")) =>
          \A k \in raised : disk[k].status = "SearchError"
    /\ (pc = "save" /\ last.idx \in raised /\ pos <= Len(keywords)) =>
          keywords[pos].idx = last.idx
    /\ pc \in {"search", "save", "writing"} =>
          /\ Len(searched) \in {pos - 1, pos}
          /\ \A j \in 1..Len(searched) : searched[j] = keywords[j].idx
    /\ pc = "finish" => SearchedRows = RowsToSearch
    /\ raised # {} => ~(pc = "idle" /\ result = "fail")

\* a run ended normally in which the processing of a row raised and a row
\* after it was searched; the ledger holds the error status of the first
C4_Witness ==
    /\ pc = "idle"
    /\ result = "ok"
    /\ \E j \in 1..Len(searched) :
          /\ searched[j] \in raised
          /\ j < Len(searched)
          /\ disk[searched[j]].status = "SearchError"

\* C5: when a run is interrupted, the ledger on disk is the ledger of the
\* last completed write (the state after the last completed step), from
\* which a later run can go on.
C5_CrashSafety ==
    (pc = "idle" /\ result = "interrupted") => (disk = committed /\ disk # <<>>)

\* C6: the normalisation (alias lookup, then prefix strip) applied to the
\* query term it produced gives that query term again.
C6_NormalizeIdempotentOnQueryTerm ==
    npc = "again" => requeried = queryTerm

\* C7: a raw name that is not empty after trimming has a query term that is
\* not empty.
C7_QueryTermNeverEmpty ==
    (npc \in {"stripped", "again"} /\ Strip(rawName) # <<>>) => queryTerm # <<>>

\* C8: the search of a row targets the domestic domain when the decision
\* name of the row holds a CJK ideograph anywhere, be it only in a leading
\* prefix that the query term has lost, and the international domain
\* otherwise.
C8_StrategyUsesDecisionName ==
    last.idx # 0 => last.site = SearchSite(DecisionName(started[last.idx]))

\* the search gave the href of a first result
GaveResult == last.idx # 0 /\ last.outcome \in {l.host : l \in ResultLinks}

\* C9: a row becomes resolved only when the first result is on the domain
\* expected for the row (domestic for a decision name holding CJK,
\* international otherwise); a result on any other host leaves the row not
\* found.
C9_ResolvedOnlyOnExpectedDomain ==
    (pc = "save" /\ GaveResult) =>
        LET expected == SearchSite(DecisionName(started[last.idx]))
            row == df[last.idx]
        IN  /\ Resolved(row) => last.outcome = expected
            /\ last.outcome # expected => row.status \in NotFoundStatuses

ClassifiedMissing(file_path) ==
    \E k \in 1..Len(missing_files_list) : missing_files_list[k].file_path = file_path

BareExists(file_path) ==
    \E dir \in {"cwd", "base"} : [dir |-> dir, name |-> file_path] \in fs

SomeVariantExists(file_path) ==
    \E dir \in {"cwd", "base"} : \E k \in 1..Len(model_extensions) :
        [dir |-> dir, name |-> file_path \o <<model_extensions[k]>>] \in fs

\* C10: a reference whose file name has no extension is classified present
\* whenever the bare name followed by a configured extension exists, as
\* written or under the workflow's directory, and missing when neither the
\* bare name nor any such variant exists in either place.
C10_ExtensionProbing ==
    epc = "done" =>
        \A k \in 1..Len(check_refs) :
            LET file_path == check_refs[k].file_path
            IN  SplitExt(file_path) = "" =>
                  /\ SomeVariantExists(file_path) => ~ClassifiedMissing(file_path)
                  /\ (~BareExists(file_path) /\ ~SomeVariantExists(file_path))
                        => ClassifiedMissing(file_path)

\* a name without extension, absent itself, found through an extension
\* variant under the workflow's directory only
C10_Witness ==
    /\ epc = "done"
    /\ \E k \in 1..Len(check_refs) :
          LET file_path == check_refs[k].file_path
          IN  /\ SplitExt(file_path) = ""
              /\ ~BareExists(file_path)
              /\ \E j \in 1..Len(model_extensions) :
                    /\ InBaseDir(WithExt(file_path, model_extensions[j])) \in fs
                    /\ Verbatim(WithExt(file_path, model_extensions[j])) \notin fs
              /\ ~ClassifiedMissing(file_path)

\* C11: the rows a run reads from the ledger file are the rows that were
\* written to it, equal in all eight columns, rows with empty link cells
\* included.
C11_LedgerRoundTrip ==
    pc = "browser" => df = started

\* the value qualifies: trimmed it is not empty, holds no line break and is
\* not an option word in any case
Qualifies(value) ==
    /\ value # <<>>
    /\ ~ContainsText(value, <<"LF">>)
    /\ Lower(value) \notin common_non_model_options

\* C12: the string at an inspected index yields a reference if and only if
\* it qualifies, and the file name emitted is what follows the last '/' or
\* '\' of the trimmed value.
C12_ExtractionRule ==
    vpc = "done" =>
        LET value == Strip(widget_value)
        IN  /\ reference # <<>> <=> Qualifies(value)
            /\ Qualifies(value) =>
                  reference = <<TrailingComponent({"/", "\\"}, value)>>

\* C13: with the alias entry that maps a CJK-prefixed file name to the name
\* without the prefix, the row of that file is searched with the corrected
\* name as query term and on the international domain.
C13_AliasScenario ==
    (/\ last.idx # 0
     /\ mappings = ScenarioAlias
     /\ started[last.idx].file_name = ScenarioAlias[1].original_name)
        => /\ last.keyword = ScenarioAlias[1].corrected_name
           /\ last.site = "huggingface.co"

ValidatedFiles == Range(workflow_files)

ProcessedRefs == UNION {Range(all_files[k].missing) : k \in processed}

\* C18: the summary ledger of the batch has exactly one row per file name
\* missing in any processed workflow, and the node-id and node-type cells of
\* that row are the union over all the references to the file name in all
\* the processed workflows.
C18_SummaryMergesGlobally ==
    bpc \in {"report", "done"} =>
        /\ {summary_csv[k].file_name : k \in 1..Len(summary_csv)}
              = {r.file_path : r \in ProcessedRefs}
        /\ \A j, k \in 1..Len(summary_csv) :
              summary_csv[j].file_name = summary_csv[k].file_name => j = k
        /\ \A k \in 1..Len(summary_csv) :
              /\ Range(summary_csv[k].node_id)
                    = {r.node_id : r \in {q \in ProcessedRefs :
                                            q.file_path = summary_csv[k].file_name}}
              /\ Range(summary_csv[k].node_type)
                    = {r.node_type : r \in {q \in ProcessedRefs :
                                              q.file_path = summary_csv[k].file_name}}

\* C19: the run report of the batch has exactly one row for each workflow
\* that was processed, the workflows without missing files included, and
\* the row carries the workflow, its ledger and its count of missing files.
C19_ReportRowPerProcessedWorkflow ==
    bpc = "done" /\ returned = "ok" =>
        /\ {batch_summary[k].workflow : k \in 1..Len(batch_summary)} = processed
        /\ \A j, k \in 1..Len(batch_summary) :
              batch_summary[j].workflow = batch_summary[k].workflow => j = k
        /\ \A k \in 1..Len(batch_summary) :
              batch_summary[k].missing_count
                  = Len(all_files[batch_summary[k].workflow].missing)

\* C15: for a workflow file that cannot be read, is not JSON, is no JSON
\* object or has no nodes key, find_missing_models returns the empty list
\* and raises nothing.
C15_InputErrorsGiveEmptyResult ==
    (descriptor # "workflow" /\ cpc \in {"end", "missing", "csv"}) =>
        /\ outcome = "returned"
        /\ missing_files = <<>>

\* C17: when the ledger exists already and creation runs again with new
\* references to a file name the ledger holds, the ledger afterwards has one
\* row for that file name, its node-id cell holds the node ids of the
\* existing row and those of the new references, and the status and the
\* links of the existing row are kept.
C17_RecreationAppendsToExistingRow ==
    cpc = "csv" =>
        \A j \in 1..Len(existing_ledger) :
            existing_ledger[j].file_name \in MissingNames =>
                /\ \E k \in 1..Len(csv_rows) :
                      /\ csv_rows[k].file_name = existing_ledger[j].file_name
                      /\ Range(csv_rows[k].node_id)
                            = Range(existing_ledger[j].node_id)
                              \cup NodeIdsOf(existing_ledger[j].file_name)
                      /\ csv_rows[k].status = existing_ledger[j].status
                      /\ csv_rows[k].download = existing_ledger[j].download
                      /\ csv_rows[k].mirror = existing_ledger[j].mirror
                /\ \A k, m \in 1..Len(csv_rows) :
                      (/\ csv_rows[k].file_name = existing_ledger[j].file_name
                       /\ csv_rows[m].file_name = existing_ledger[j].file_name)
                          => k = m


HealedColumns == {"status", "download", "mirror", "search"}

C20_BrowserFailureLeavesLedger ==
    [][(pc = "browser" /\ pc' \notin {"browser", "search", "save"}
            /\ result' # "interrupted")
         => (/\ result' = "fail"
             /\ pc' = "idle"
             /\ disk' = started
             /\ started' = started)]_vars

\* a second run over a ledger that holds a resolved row has ended with a
\* failure before any search
C20_Witness ==
    /\ result = "fail"
    /\ pc = "idle"
    /\ runs = 2
    /\ searched = <<>>
    /\ started # <<>>
    /\ disk = started
    /\ \E k \in 1..Len(disk) : Resolved(disk[k])

\* C21: within one run the searches follow the order of the ledger rows and
\* no row is searched twice, and whenever a search is about to start the
\* ledger file holds the result of every search of the run so far.
C21_SequentialInRowOrder ==
    /\ \A j, k \in 1..Len(searched) : j < k => searched[j] < searched[k]
    /\ pc = "search" =>
          /\ Len(searched) = pos - 1
          /\ Len(disk) = Len(df)
          /\ \A k \in Range(searched) : disk[k] = WriteRow(df[k])

\* the second row of a ledger is about to be searched, after the first
C21_Witness ==
    /\ pc = "search"
    /\ searched = <<1>>
    /\ keywords[pos].idx = 2
    /\ disk[1].status # ""

\* C22: in every row that create_csv_file writes, the node-type cell names
\* each node type once at most and the node-id cell names each node once at
\* most, however many references to the file the missing list holds.
C22_MergedListsHaveNoDuplicates ==
    cpc = "csv" =>
        \A k \in 1..Len(csv_rows) :
            /\ NoDuplicates(csv_rows[k].node_type)
            /\ NoDuplicates(csv_rows[k].node_id)

\* the search of the row last searched faulted: no search box, no result
\* container, or an exception
SearchFaulted == last.outcome \in {"raise", "no_search_box", "no_results_container"}

\* the search ran and gave no result, or a result on another domain
SearchFoundNothing ==
    \/ last.outcome = "no_result_link"
    \/ (last.outcome \in {l.host : l \in ResultLinks} /\ last.outcome # last.site)

\* C23: a row whose search faulted (search box missing, result container
\* missing, exception) ends in the error status, a row whose search ran and
\* gave no result or a result on another domain ends in a not-found status,
\* and neither ends in the status of the other.
C23_StatusClassification ==
    (last.idx # 0 /\ df # <<>>) =>
        /\ SearchFaulted => df[last.idx].status = "SearchError"
        /\ SearchFoundNothing => df[last.idx].status \in NotFoundStatuses


\* C24: when the processing of one node of a workflow raises, the
\* references of every other node, before and after it, are still extracted
\* and find_missing_models does not raise.
C24_PerNodeFailureIsolation ==
    (descriptor = "workflow" /\ cpc \notin {"file", "nodes"}) =>
        /\ outcome # "raised"
        /\ \A k \in 1..Len(nodes) :
              ~NodeRaises(impl, nodes[k]) =>
                  Range(NodeRefs(impl, nodes[k])) \subseteq Range(file_references)


\* C25: whatever the order in which the validation tasks complete, when the
\* validation is over every candidate's verdict has been collected, the
\* validated list holds each valid candidate once and no other, in the
\* order of the file names, and the workflows are processed in that order.
C25_ValidationOrderIndependent ==
    bpc \notin {"glob", "validate"} =>
        /\ checked = 1..Len(all_files)
        /\ Range(workflow_files) =
              {k \in 1..Len(all_files) : IsValidCandidate(impl, all_files[k])}
        /\ NoDuplicates(workflow_files)
        /\ \A j, k \in 1..Len(workflow_files) :
              j < k => all_files[workflow_files[j]].path
                          <= all_files[workflow_files[k]].path
        /\ \A j, k \in 1..Len(results) :
              j < k => all_files[results[j].workflow].path
                          <= all_files[results[k].workflow].path

\* core: the verdict of the second candidate was collected before the one
\* of the first, and both are workflows
C25_Witness ==
    /\ impl = "core"
    /\ bpc = "validate"
    /\ checked = {2}
    /\ workflow_files = <<2>>
    /\ IsValidCandidate(impl, all_files[1])
    /\ all_files[1].path < all_files[2].path

\* the candidates that are the file of this path
CandidatesOf(file) == {k \in 1..Len(all_files) : all_files[k].path = file}

\* C29: in one batch run each file of the directory is validated once at
\* most and processed once at most, however many of the patterns match it.
C29_EachFileOnce ==
    \A file \in 1..Len(directory) :
        /\ Cardinality(CandidatesOf(file) \cap checked) <= 1
        /\ Cardinality(CandidatesOf(file) \cap processed) <= 1


TerminalStatuses == {"Processed", "SearchError"} \cup NotFoundStatuses

\* the rows the run chose for searching when it read the ledger
SelectedRows ==
    {kw.idx : kw \in Range(keywords_to_search(impl, ReadCsv(impl, started)))}

\* a run has ended normally and every row it had chosen has a terminal status
RunEndedWithTerminalRows ==
    (pc = "idle" /\ result = "ok" /\ runs > 0) =>
        \A k \in SelectedRows :
            /\ k \in Range(searched)
            /\ disk[k].status \in TerminalStatuses

\* C26: when every step of a run comes back, a run that has started comes
\* to its end, and when it ends normally every row it chose for searching
\* has a terminal status (resolved, not found or error): none is pending.
C26_RunTerminatesWithTerminalRows ==
    /\ []RunEndedWithTerminalRows
    /\ (pc # "idle") ~> (pc = "idle")

\* a run over two rows to search has ended normally
C26_Witness ==
    /\ pc = "idle"
    /\ result = "ok"
    /\ Len(searched) = 2
    /\ \A k \in Range(searched) : disk[k].status \in TerminalStatuses

\* the columns a run leaves alone
FixedColumns(row) ==
    [no |-> row.no, node_id |-> row.node_id, node_type |-> row.node_type,
     file_name |-> row.file_name]

\* C27: the ledger file a run leaves behind has the rows the run found, in
\* their order, each with its sequence number, node ids, node types and file
\* name, and the rows the run has not searched are as the run found them in
\* every column.
C27_RunChangesOnlyStatusAndLinks ==
    (pc = "idle" /\ runs > 0 /\ started # <<>>) =>
        /\ Len(disk) = Len(started)
        /\ \A k \in 1..Len(started) :
              /\ FixedColumns(disk[k]) = FixedColumns(started[k])
              /\ k \notin Range(searched) => disk[k] = started[k]


\* a link a search gave, not the query link written for the user
IsResultLink(link) == link # NoLink /\ link.host # "www.bing.com"

\* C28: in every ledger that creation and any number of runs leave on the
\* disk, a row that has a download link or a mirror link is resolved, and a
\* resolved row has a result link in one of its link columns.
C28_LinkStatusConsistency ==
    \A k \in 1..Len(disk) :
        /\ (disk[k].download # NoLink \/ disk[k].mirror # NoLink) => Resolved(disk[k])
        /\ Resolved(disk[k]) =>
              \/ IsResultLink(disk[k].download)
              \/ IsResultLink(disk[k].mirror)
              \/ IsResultLink(disk[k].search)

\* after a second run the ledger holds a resolved row with its download
\* link and a row that was not found, without one
C28_Witness ==
    /\ pc = "idle"
    /\ runs = 2
    /\ \E j, k \in 1..Len(disk) :
          /\ Resolved(disk[j])
          /\ disk[j].download # NoLink
          /\ disk[k].status \in NotFoundStatuses
          /\ disk[k].download = NoLink


\* C30: an analysis called when today's count of its feature has reached the
\* limit goes on only when the credits cover its cost, and when it goes on
\* the credits are lower by exactly that cost afterwards; the credits are
\* never negative.
C30_CreditGating ==
    /\ license_info.credits >= 0
    /\ (gate.feature # "none" /\ gate.over_limit /\ gate.proceeded) =>
          /\ gate.before >= gate.cost
          /\ gate.after = gate.before - gate.cost

=============================================================================
